---- MODULE Spec2Model ----
(***************************************************************************)
(* Disk Maid (src/V2.5(perfect).rs): the bounded recursive directory       *)
(* scanner (scan_directory / scan_recursive), the sorter (sort_files) and  *)
(* the message handler of the application (DiskViz::update).               *)
(*                                                                         *)
(* Two specifications share the module:                                    *)
(*   ScanSpec  one call of scan_directory, stepped entry by entry over a   *)
(*             disk drawn from a bounded family of directory graphs;       *)
(*   Spec      the application: user messages, scans and deletions in      *)
(*             flight, and the completions they deliver to update().       *)
(*                                                                         *)
(* Strings are sequences of one-character strings, so that prefixes,       *)
(* extensions and letter case are computed and not assumed.                *)
(***************************************************************************)
EXTENDS Integers, Sequences, FiniteSets, TLC

(***************************************************************************)
(* Program constants and model bounds.                                     *)
(***************************************************************************)

\* max_depth, the last argument of the top-level call (line 194).
MAX_DEPTH == 5

\* The record ceiling tested at line 136.  The source's literal is 10000; the
\* model scales it down so that TLC can build trees that pass it.  Every
\* formula about the ceiling is stated in terms of MAX_FILES, never of the
\* number, and the disks of ScanSpec are sized from it.  It stays above
\* MAX_DEPTH + 2 so that, as in the source, a chain of directories reaches
\* the depth limit before it reaches the ceiling.
MAX_FILES == 8

\* Bound: the number of objects below the root in the freely shaped trees.
MaxNodes == 3

(***************************************************************************)
(* Characters and strings.                                                 *)
(***************************************************************************)

\* u8::to_ascii_lowercase / char::to_lowercase on the model's alphabet.
LowerChar(c) ==
  CASE c = "A" -> "a" [] c = "B" -> "b" [] c = "D" -> "d" [] c = "F" -> "f"
    [] c = "K" -> "k" [] c = "R" -> "r" [] c = "T" -> "t" [] c = "X" -> "x"
    [] OTHER -> c

\* str::to_lowercase
to_lowercase(s) == [i \in 1..Len(s) |-> LowerChar(s[i])]

\* str::eq_ignore_ascii_case
eq_ignore_ascii_case(a, b) == to_lowercase(a) = to_lowercase(b)

\* str::starts_with
starts_with(s, p) == Len(s) >= Len(p) /\ SubSeq(s, 1, Len(p)) = p

\* str::trim_start_matches(p): strips the prefix p as often as it repeats.
RECURSIVE trim_start_matches(_, _)
trim_start_matches(s, p) ==
  IF p # <<>> /\ starts_with(s, p)
  THEN trim_start_matches(SubSeq(s, Len(p) + 1, Len(s)), p)
  ELSE s

\* The positions of "." in a file name.
DotPositions(name) == {i \in 1..Len(name) : name[i] = "."}

Max(S) == CHOOSE x \in S : \A y \in S : y <= x

NoExt == <<"<none>">>

\* Path::extension on a file name: the part after the last ".", and none
\* when the name has no "." or its only "." is the first character.
extension(name) ==
  LET dots == DotPositions(name) IN
  IF dots = {} THEN NoExt
  ELSE LET last == Max(dots) IN
       IF last = 1 THEN NoExt ELSE SubSeq(name, last + 1, Len(name))

StarDot == <<"*", ".">>

\* A variant of matches that compares the extension with its letter case
\* (== for eq_ignore_ascii_case).
matches_CaseSensitive(filter, name) ==
  IF filter = <<"*">> \/ filter = <<"*", ".", "*">> THEN TRUE
  ELSE IF starts_with(filter, StarDot)
       THEN extension(name) = trim_start_matches(filter, StarDot)
       ELSE TRUE

\* A variant of matches that knows "*" only: "*.*" is taken as an
\* extension filter and a pattern of no known form matches nothing.
matches_StarOnly(filter, name) ==
  IF filter = <<"*">> THEN TRUE
  ELSE IF starts_with(filter, StarDot)
       THEN LET e == extension(name)
            IN  e # NoExt /\ eq_ignore_ascii_case(e, trim_start_matches(filter, StarDot))
       ELSE FALSE

\* lines 168-178: whether a non-directory file passes the filter.
matches(filter, name) ==
  IF filter = <<"*">> \/ filter = <<"*", ".", "*">> THEN TRUE
  ELSE IF starts_with(filter, StarDot)
       THEN LET ext == trim_start_matches(filter, StarDot)
                e   == extension(name)
            IN  IF e = NoExt THEN FALSE ELSE eq_ignore_ascii_case(e, ext)
       ELSE TRUE

(***************************************************************************)
(* The disk: a directory graph.  Node 1.. are filesystem objects; a        *)
(* directory lists its children in the order read_dir returns them.  A     *)
(* child that is a link to a directory is an edge to that directory, so a  *)
(* junction loop is a cycle of the graph.                                  *)
(***************************************************************************)

NoNode == 0

Digit(n) == <<"0", "1", "2", "3", "4", "5", "6", "7", "8", "9">>[(n % 10) + 1]

\* The base of the file name of node n.
BaseName(n) == <<"f", Digit(n \div 10), Digit(n)>>

Node(isdir, name, children, metaok, listok, size, modified) ==
  [is_dir |-> isdir, name |-> name, children |-> children,
   meta_ok |-> metaok, list_ok |-> listok, size |-> size, modified |-> modified]

\* PathBuf::join, then to_string_lossy (lines 146, 151).
JoinPath(dirpath, name) == dirpath \o <<"/">> \o name

\* fs::read_dir(dir) succeeds (line 139).
ReadDirOk(d, n) == n # NoNode /\ n \in DOMAIN d /\ d[n].is_dir /\ d[n].list_ok

\* fs::metadata(&path) succeeds (line 147).
MetadataOk(d, n) == n \in DOMAIN d /\ d[n].meta_ok

\* The FileInfo pushed for a directory (lines 160-165).
DirInfo(path, node) ==
  [path |-> path, size |-> 0, is_dir |-> TRUE, modified |-> node.modified]

\* The FileInfo pushed for a file (lines 181-186).
FileRecord(path, node) ==
  [path |-> path, size |-> node.size, is_dir |-> FALSE, modified |-> node.modified]

\* The path of the root directory of every disk of the model.
RootPath == <<"r">>

\* A path that names nothing on any disk of the model.
MissingPath == <<"x">>

\* The operating system's path lookup, behind fs::read_dir(dir),
\* path.exists() and path.is_dir(): the node that `target` names, walking
\* down from node n whose path is npath; NoNode when there is none.
RECURSIVE ResolveFrom(_, _, _, _)
ResolveFrom(d, n, npath, target) ==
  IF npath = target THEN n
  ELSE IF ~d[n].is_dir \/ ~starts_with(target, npath \o <<"/">>) THEN NoNode
  ELSE LET hits == {k \in 1..Len(d[n].children) :
                      LET cp == JoinPath(npath, d[d[n].children[k]].name)
                      IN  cp = target \/ starts_with(target, cp \o <<"/">>)}
       IN  IF hits = {} THEN NoNode
           ELSE LET c == d[n].children[CHOOSE k \in hits : TRUE]
                IN  ResolveFrom(d, c, JoinPath(npath, d[c].name), target)

Resolve(d, path) == ResolveFrom(d, 1, d[1].name, path)

\* A variant of DepthExceeded without the test: no depth is too deep.
DepthExceeded_Never(depth) == FALSE

\* A variant of DepthExceeded that lets one more level through.
DepthExceeded_OneLate(depth) == depth > MAX_DEPTH + 1

\* line 133: the depth test at the entry of scan_recursive.
DepthExceeded(depth) == depth > MAX_DEPTH

\* line 136: the ceiling test at the entry of scan_recursive.
CapExceeded(files) == Len(files) > MAX_FILES

(***************************************************************************)
(* scan_directory as a function of the disk (lines 129-196): the result    *)
(* the application receives in ScanCompleted.                              *)
(***************************************************************************)

Ok(files) == [ok |-> TRUE, files |-> files]
Err(e) == [ok |-> FALSE, err |-> e]

RECURSIVE scan_recursive(_, _, _, _, _, _)
RECURSIVE scan_entries(_, _, _, _, _, _, _)

\* lines 132-142 and 191: the accumulator `files` after the call returns.
\* Every return of scan_recursive is Ok(()) (lines 134, 137, 141, 191).
scan_recursive(d, n, path, filter, files, depth) ==
  IF DepthExceeded(depth) THEN files
  ELSE IF CapExceeded(files) THEN files
  ELSE IF ~ReadDirOk(d, n) THEN files
  ELSE scan_entries(d, d[n].children, 1, path, filter, files, depth)

\* lines 144-190: the loop over the entries, from entry idx on.
scan_entries(d, entries, idx, path, filter, files, depth) ==
  IF idx > Len(entries) THEN files
  ELSE LET c  == entries[idx]
           cp == JoinPath(path, d[c].name)
       IN  IF ~MetadataOk(d, c)
           THEN scan_entries(d, entries, idx + 1, path, filter, files, depth)
           ELSE IF d[c].is_dir
           THEN scan_entries(d, entries, idx + 1, path, filter,
                  scan_recursive(d, c, cp, filter,
                                 Append(files, DirInfo(cp, d[c])), depth + 1),
                  depth)
           ELSE scan_entries(d, entries, idx + 1, path, filter,
                  IF matches(filter, d[c].name)
                  THEN Append(files, FileRecord(cp, d[c])) ELSE files,
                  depth)

\* lines 129-131 and 194-195.  The `?` of line 194 passes on an Err of
\* scan_recursive, which has no return that makes one.
scan_directory(d, path, filter) ==
  Ok(scan_recursive(d, Resolve(d, path), path, filter, <<>>, 0))

(***************************************************************************)
(* The disks scan_directory is stepped over in ScanSpec.                   *)
(***************************************************************************)

\* The file-name endings of the model's files.
Suffixes == << <<>>, <<".", "t", "x", "t">> >>

RECURSIVE SortedSeq(_)
SortedSeq(S) ==
  IF S = {} THEN <<>>
  ELSE LET m == CHOOSE x \in S : \A y \in S : x <= y
       IN  <<m>> \o SortedSeq(S \ {m})

\* The shapes of a tree of n objects 2..n+1 below the root 1: each object
\* has a parent before it that is a directory, and a file has an ending.
Shapes(n) ==
  {sh \in [2..(n + 1) -> [parent : 1..n, is_dir : BOOLEAN, sfx : 1..Len(Suffixes)]] :
     \A i \in 2..(n + 1) :
        /\ sh[i].parent < i
        /\ sh[i].parent = 1 \/ sh[sh[i].parent].is_dir
        /\ sh[i].is_dir => sh[i].sfx = 1}

\* What may fail on a disk: nothing, the metadata of one object below the
\* root, or the listing of one directory (the root included).
Failures(n, sh) ==
  {<<NoNode, "none">>}
    \cup {<<i, "meta">> : i \in 2..(n + 1)}
    \cup {<<i, "list">> : i \in {1} \cup {j \in 2..(n + 1) : sh[j].is_dir}}

TreeDisk(n, sh, fail) ==
  [i \in 1..(n + 1) |->
     IF i = 1
     THEN Node(TRUE, RootPath, SortedSeq({j \in 2..(n + 1) : sh[j].parent = 1}),
               TRUE, fail # <<1, "list">>, 0, 1)
     ELSE Node(sh[i].is_dir, BaseName(i) \o Suffixes[sh[i].sfx],
               SortedSeq({j \in 2..(n + 1) : sh[j].parent = i}),
               fail # <<i, "meta">>, fail # <<i, "list">>, i, 10 - i)]

TreeDisks ==
  UNION {UNION {{TreeDisk(n, sh, f) : f \in Failures(n, sh)} : sh \in Shapes(n)} :
           n \in 0..MaxNodes}

\* A chain of len nested directories below the root with one file in the
\* deepest: the directories are at depths 1..len, the file at depth len+1.
ChainDisk(len) ==
  [i \in 1..(len + 2) |->
     IF i = 1 THEN Node(TRUE, RootPath, <<2>>, TRUE, TRUE, 0, 1)
     ELSE IF i <= len + 1 THEN Node(TRUE, BaseName(i), <<i + 1>>, TRUE, TRUE, 0, 1)
     ELSE Node(FALSE, BaseName(i), <<>>, TRUE, TRUE, i, 1)]

ChainDisks == {ChainDisk(len) : len \in 1..(MAX_DEPTH + 2)}

\* A wide root: k1 files, then a directory holding one file, then k2 files.
FlatDisk(k1, k2) ==
  [i \in 1..(k1 + k2 + 3) |->
     IF i = 1
     THEN Node(TRUE, RootPath,
               [j \in 1..(k1 + k2 + 1) |-> IF j <= k1 + 1 THEN j + 1 ELSE j + 2],
               TRUE, TRUE, 0, 1)
     ELSE IF i = k1 + 2 THEN Node(TRUE, BaseName(i), <<k1 + 3>>, TRUE, TRUE, 0, 1)
     ELSE Node(FALSE, BaseName(i), <<>>, TRUE, TRUE, i, 1)]

FlatDisks == {FlatDisk(k1, k2) : k1 \in 0..(MAX_FILES + 1), k2 \in 0..2}

\* Junction loops: a directory that links back to the root (the link has
\* the root's name), and a root that holds a link to itself and a file.
LoopDisks ==
  { <<Node(TRUE, RootPath, <<2>>, TRUE, TRUE, 0, 1),
      Node(TRUE, BaseName(2), <<1>>, TRUE, TRUE, 0, 1)>>,
    <<Node(TRUE, RootPath, <<1, 2>>, TRUE, TRUE, 0, 1),
      Node(FALSE, BaseName(2), <<>>, TRUE, TRUE, 2, 1)>> }

\* The file names the filter is tried on: with and without an extension, in
\* both letter cases, with two extensions, with an extension that contains
\* or extends "txt", with a leading dot and with a trailing dot.
MatchNames ==
  { <<"a">>,
    <<"a", ".", "t", "x", "t">>,
    <<"a", ".", "T", "X", "T">>,
    <<"a", ".", "T", "x", "t">>,
    <<"a", ".", "t", "x", "t", ".", "b", "a", "k">>,
    <<"a", ".", "b", "a", "k">>,
    <<"a", ".", "t", "x">>,
    <<"a", ".", "t", "x", "t", "x">>,
    <<"a", "t", "x", "t">>,
    <<"t", "x", "t">>,
    <<".", "t", "x", "t">>,
    <<".", "a", ".", "t", "x", "t">>,
    <<"a", ".">>,
    <<"a", ".", "b", ".", "t", "x", "t">> }

\* The filters they are tried against: *.<ext> in both letter cases, with
\* an empty <ext>, with a dot in <ext> and with "*." repeated; "*" and
\* "*.*"; and patterns of no known form.
MatchFilters ==
  { <<"*", ".", "t", "x", "t">>,
    <<"*", ".", "T", "X", "T">>,
    <<"*", ".", "t", "X", "t">>,
    <<"*", ".", "b", "a", "k">>,
    <<"*", ".", "t", "x">>,
    <<"*", ".", "x", "t">>,
    <<"*", ".">>,
    <<"*", ".", "*", ".", "t", "x", "t">>,
    <<"*", ".", "t", "x", "t", ".", "b", "a", "k">>,
    <<"*", ".", "*", ".">>,
    <<"*">>,
    <<"*", ".", "*">>,
    <<>>,
    <<"t", "x", "t">>,
    <<".", "t", "x", "t">>,
    <<"*", "t", "x", "t">>,
    <<"a", "*">>,
    <<"*", "*">>,
    <<"a", ".", "t", "x", "t">> }

\* A root that holds one file of the given name.
NameDisk(name) ==
  <<Node(TRUE, RootPath, <<2>>, TRUE, TRUE, 0, 1),
    Node(FALSE, name, <<>>, TRUE, TRUE, 2, 1)>>

\* The filters of the model: "*" and "*.txt".
ScanFilters == { <<"*">>, <<"*", ".", "t", "x", "t">> }

\* The paths scan_directory is called with on disk d: the root, a path that
\* does not exist, and every child of the root (a file or a directory).
ScanPaths(d) ==
  {RootPath, MissingPath}
    \cup {JoinPath(RootPath, d[d[1].children[k]].name) : k \in 1..Len(d[1].children)}

(***************************************************************************)
(* sort_files (lines 198-207).                                             *)
(***************************************************************************)

SortMethods == {"NameAZ", "NameZA", "SizeLargest", "SizeSmallest", "Newest", "Oldest"}

\* The characters of the model in the order of their code points.
Alphabet ==
  <<"*", ".", "/", "0", "1", "2", "3", "4", "5", "6", "7", "8", "9",
    "A", "B", "D", "F", "K", "R", "T", "X",
    "a", "b", "d", "f", "k", "r", "t", "x">>

CharCode(c) == CHOOSE i \in 1..Len(Alphabet) : Alphabet[i] = c

\* Ord::cmp on integers.
CmpInt(a, b) == IF a < b THEN "Less" ELSE IF a > b THEN "Greater" ELSE "Equal"

\* Ord::cmp on strings: by the first position that differs, a proper prefix
\* being the smaller.
CmpStr(a, b) ==
  LET diff == {i \in 1..Len(a) : i > Len(b) \/ a[i] # b[i]} IN
  IF diff = {}
  THEN CmpInt(Len(a), Len(b))
  ELSE LET i == CHOOSE k \in diff : \A m \in diff : k <= m
       IN  IF i > Len(b) THEN "Greater"
           ELSE CmpInt(CharCode(a[i]), CharCode(b[i]))

\* A variant of compare with the operands of SizeLargest in the order of
\* SizeSmallest (a.size.cmp(&b.size) on line 202).
compare_SizeAscending(a, b, method) ==
  CASE method = "NameAZ" -> CmpStr(to_lowercase(a.path), to_lowercase(b.path))
    [] method = "NameZA" -> CmpStr(to_lowercase(b.path), to_lowercase(a.path))
    [] method = "SizeLargest" -> CmpInt(a.size, b.size)
    [] method = "SizeSmallest" -> CmpInt(a.size, b.size)
    [] method = "Newest" -> CmpInt(b.modified, a.modified)
    [] method = "Oldest" -> CmpInt(a.modified, b.modified)

\* The closure handed to sort_by (lines 199-206).
compare(a, b, method) ==
  CASE method = "NameAZ" -> CmpStr(to_lowercase(a.path), to_lowercase(b.path))
    [] method = "NameZA" -> CmpStr(to_lowercase(b.path), to_lowercase(a.path))
    [] method = "SizeLargest" -> CmpInt(b.size, a.size)
    [] method = "SizeSmallest" -> CmpInt(a.size, b.size)
    [] method = "Newest" -> CmpInt(b.modified, a.modified)
    [] method = "Oldest" -> CmpInt(a.modified, b.modified)

\* A variant of InsertSorted that puts x before the elements equal to it,
\* as an unstable sort may (sort_unstable_by for sort_by).
InsertSorted_BeforeEqual(sorted, x, method) ==
  LET after == {i \in 1..Len(sorted) : compare(sorted[i], x, method) # "Less"}
      k == IF after = {} THEN Len(sorted) + 1
           ELSE CHOOSE i \in after : \A j \in after : i <= j
  IN  SubSeq(sorted, 1, k - 1) \o <<x>> \o SubSeq(sorted, k, Len(sorted))

\* x put into the sorted list after every element that is not greater.
InsertSorted(sorted, x, method) ==
  LET after == {i \in 1..Len(sorted) : compare(sorted[i], x, method) = "Greater"}
      k == IF after = {} THEN Len(sorted) + 1
           ELSE CHOOSE i \in after : \A j \in after : i <= j
  IN  SubSeq(sorted, 1, k - 1) \o <<x>> \o SubSeq(sorted, k, Len(sorted))

\* Vec::sort_by, a stable sort: the elements inserted in their input order.
RECURSIVE sort_by(_, _)
sort_by(fs, method) ==
  IF fs = <<>> THEN <<>>
  ELSE InsertSorted(sort_by(SubSeq(fs, 1, Len(fs) - 1), method), fs[Len(fs)], method)

sort_files(fs, method) == sort_by(fs, method)

(***************************************************************************)
(* State.                                                                  *)
(***************************************************************************)

VARIABLES
  disk,        \* the filesystem
  \* one call of scan_directory (ScanSpec)
  arg_path,    \* scan_directory's argument `path`
  arg_filter,  \* scan_directory's argument `filter`
  stack,       \* the activations of scan_recursive, the innermost last
  files,       \* the Vec<FileInfo> all activations push to (line 130)
  ret,         \* what the activation that returned last returned
  scan_out,    \* what scan_directory returned, NoResult while it runs
  \* the fields of DiskViz (lines 266-282)
  current_screen,
  config,                 \* AppConfig: scan_filter and default_sort
  status_message,
  scan_filter_buffer,
  settings_default_sort,
  is_scanning,
  scanned_files,
  scan_path_buffer,
  pending_delete_file,
  current_sort,
  \* the commands update() has handed to the executor
  scans,       \* scan_directory futures whose ScanCompleted is not yet delivered
  deletes,     \* remove_file futures whose FileDeleted is not yet delivered
  started,     \* how many scans have been dispatched
  removals,    \* how many removals have been dispatched
  \* history, read by the claims only
  stopped,     \* the scans that were in flight when a StopScanPressed was handled
  delivered    \* the results ScanCompleted(Ok) has stored so far, by scan

workerVars == <<arg_path, arg_filter, stack, files, ret, scan_out>>

fieldVars ==
  <<current_screen, config, status_message, scan_filter_buffer,
    settings_default_sort, is_scanning, scanned_files, scan_path_buffer,
    pending_delete_file, current_sort>>

appVars == <<fieldVars, scans, deletes, started, removals, stopped, delivered>>

scanVars == <<disk, workerVars>>

vars == <<disk, workerVars, appVars>>

NoResult == [ok |-> FALSE, err |-> "<running>"]

\* An activation of scan_recursive: the directory `node` at `path`, its
\* `depth`, and the position in its entries; pc "enter" is before line 133.
Frame(node, path, depth) ==
  [node |-> node, path |-> path, depth |-> depth, idx |-> 1, pc |-> "enter"]

Top == stack[Len(stack)]
Pop == SubSeq(stack, 1, Len(stack) - 1)
SetTop(f) == [stack EXCEPT ![Len(stack)] = f]

AtEnter == stack # <<>> /\ Top.pc = "enter"
AtEntry == stack # <<>> /\ Top.pc = "loop" /\ Top.idx <= Len(disk[Top.node].children)

\* The entry the loop is at, and its path (line 146).
EntryNode == disk[Top.node].children[Top.idx]
EntryPath == JoinPath(Top.path, disk[EntryNode].name)

(***************************************************************************)
(* The application: DiskViz::new and DiskViz::update (lines 318-594).      *)
(* Left out, as no claim reads them: the display unit, the default path,   *)
(* the folder dialogs, OpenFolder and ConfigSaved (which only set          *)
(* status_message), and ExitApp.                                           *)
(***************************************************************************)

\* Bounds: the scans and the removals dispatched in one behaviour.
MaxScans == 2
MaxDeletes == 1

\* files.iter().take(200) in file_scan_view (line 740).
VIEW_ROWS == 200

\* Option<String>::None for pending_delete_file.
None == <<"<None>">>

\* status_message: the kind of text, and what is formatted into it.
Status(kind) ==
  [kind |-> kind, path |-> <<>>, file_count |-> 0, dir_count |-> 0, total_size |-> 0]

\* AppConfig::default (lines 20-29).
DefaultConfig == [scan_filter |-> <<"*">>, default_sort |-> "NameAZ"]

\* The disk the application runs on: r/f02.txt, the directory r/f03, and
\* r/f03/f04.
AppDisk ==
  <<Node(TRUE, RootPath, <<2, 3>>, TRUE, TRUE, 0, 5),
    Node(FALSE, BaseName(2) \o Suffixes[2], <<>>, TRUE, TRUE, 3, 8),
    Node(TRUE, BaseName(3), <<4>>, TRUE, TRUE, 0, 7),
    Node(FALSE, BaseName(4), <<>>, TRUE, TRUE, 1, 9)>>

\* What the user types into the path field: the root, a path that does not
\* exist, and the path of a file.
AppPaths == {RootPath, MissingPath, JoinPath(RootPath, AppDisk[2].name)}

\* The sort methods the user picks in the list's "Sort By" in the model.
SortChoices == {"NameAZ", "SizeLargest"}

\* What the user enters on the settings screen in the model.
SettingsSortChoices == {"SizeLargest"}
SettingsFilters == { <<"*", ".", "t", "x", "t">> }

\* The screens the main menu leads to in the model; help_view (lines
\* 881-903) offers nothing but the Back button every screen has.
MenuScreens == {"FileScan", "Settings"}

Min(a, b) == IF a < b THEN a ELSE b

RECURSIVE SumSizes(_)
SumSizes(fs) == IF fs = <<>> THEN 0 ELSE fs[1].size + SumSizes(Tail(fs))

\* A variant of total_size with the test of the filter inverted (f.is_dir
\* for !f.is_dir on line 467).
total_size_OfDirs(fs) == SumSizes(SelectSeq(fs, LAMBDA f : f.is_dir))

\* lines 465-467: the counts and the total ScanCompleted formats.
file_count(fs) == Len(SelectSeq(fs, LAMBDA f : ~f.is_dir))
dir_count(fs) == Len(SelectSeq(fs, LAMBDA f : f.is_dir))
total_size(fs) == SumSizes(SelectSeq(fs, LAMBDA f : ~f.is_dir))

\* A variant of remove_by_path that cuts the list at the record (truncate
\* for remove).
remove_by_path_Truncate(fs, path) ==
  LET hits == {i \in 1..Len(fs) : fs[i].path = path} IN
  IF hits = {} THEN fs
  ELSE SubSeq(fs, 1, (CHOOSE i \in hits : \A j \in hits : i <= j) - 1)

\* lines 571-573: the first record with this path is removed, if any.
remove_by_path(fs, path) ==
  LET hits == {i \in 1..Len(fs) : fs[i].path = path} IN
  IF hits = {} THEN fs
  ELSE LET index == CHOOSE i \in hits : \A j \in hits : i <= j
       IN  SubSeq(fs, 1, index - 1) \o SubSeq(fs, index + 1, Len(fs))

\* The directory part of a path.
ParentPath(path) ==
  LET slashes == {i \in 1..Len(path) : path[i] = "/"} IN
  IF slashes = {} THEN <<>> ELSE SubSeq(path, 1, Max(slashes) - 1)

\* fs::remove_file(p) succeeds (line 560): p names a file, not a directory.
RemoveOk(d, path) ==
  LET n == Resolve(d, path) IN n # NoNode /\ ~d[n].is_dir

\* The disk after fs::remove_file(p) succeeded.
RemoveFile(d, path) ==
  LET n == Resolve(d, path)
      q == Resolve(d, ParentPath(path))
  IN  [d EXCEPT ![q].children = SelectSeq(@, LAMBDA c : c # n)]

\* DiskViz::new (lines 318-351) with the default configuration, no scan
\* and no removal dispatched.
NewApp ==
  /\ current_screen = "MainMenu"
  /\ config = DefaultConfig
  /\ status_message = Status("Welcome")
  /\ scan_filter_buffer = DefaultConfig.scan_filter
  /\ settings_default_sort = DefaultConfig.default_sort
  /\ is_scanning = FALSE
  /\ scanned_files = <<>>
  /\ scan_path_buffer = RootPath
  /\ pending_delete_file = None
  /\ current_sort = DefaultConfig.default_sort
  /\ scans = {}
  /\ deletes = {}
  /\ started = 0
  /\ removals = 0
  /\ stopped = {}
  /\ delivered = {}

\* No call of scan_directory is being stepped.
WorkerIdle ==
  /\ arg_path = RootPath
  /\ arg_filter = <<"*">>
  /\ stack = <<>>
  /\ files = <<>>
  /\ ret = "none"
  /\ scan_out = NoResult

Init == disk = AppDisk /\ WorkerIdle /\ NewApp

\* lines 363-367
ScreenChanged(screen) ==
  /\ current_screen' = screen
  /\ pending_delete_file' = None
  /\ UNCHANGED <<config, status_message, scan_filter_buffer, settings_default_sort,
                 is_scanning, scanned_files, scan_path_buffer, current_sort>>
  /\ UNCHANGED <<disk, workerVars, scans, deletes, started, removals, stopped, delivered>>

\* lines 369-373
BackToMainMenu ==
  /\ current_screen' = "MainMenu"
  /\ status_message' = Status("WelcomeBack")
  /\ UNCHANGED <<config, scan_filter_buffer, settings_default_sort, is_scanning,
                 scanned_files, scan_path_buffer, pending_delete_file, current_sort>>
  /\ UNCHANGED <<disk, workerVars, scans, deletes, started, removals, stopped, delivered>>

\* A variant of StartScanPressed that dispatches the scan and leaves the
\* held list and the pending deletion as they are (lines 437-438 missing).
StartScanPressed_KeepList ==
  LET node == Resolve(disk, scan_path_buffer) IN
  /\ IF node = NoNode \/ ~disk[node].is_dir
     THEN /\ status_message' = Status(IF node = NoNode THEN "ErrPathDoesNotExist"
                                                        ELSE "ErrNotADirectory")
          /\ UNCHANGED <<is_scanning, scans, started>>
     ELSE /\ started < MaxScans
          /\ is_scanning' = TRUE
          /\ status_message' = Status("Scanning")
          /\ scans' = scans \cup {[id |-> started + 1, path |-> scan_path_buffer,
                                   filter |-> config.scan_filter, out |-> NoResult]}
          /\ started' = started + 1
  /\ UNCHANGED <<current_screen, config, scan_filter_buffer, settings_default_sort,
                 scanned_files, scan_path_buffer, pending_delete_file, current_sort>>
  /\ UNCHANGED <<disk, workerVars, deletes, removals, stopped, delivered>>

\* A variant of StartScanPressed that clears the list and the pending
\* deletion before it validates the path.
StartScanPressed_ClearFirst ==
  LET node == Resolve(disk, scan_path_buffer) IN
  /\ scanned_files' = <<>>
  /\ pending_delete_file' = None
  /\ IF node = NoNode \/ ~disk[node].is_dir
     THEN /\ status_message' = Status(IF node = NoNode THEN "ErrPathDoesNotExist"
                                                        ELSE "ErrNotADirectory")
          /\ UNCHANGED <<is_scanning, scans, started>>
     ELSE /\ started < MaxScans
          /\ is_scanning' = TRUE
          /\ status_message' = Status("Scanning")
          /\ scans' = scans \cup {[id |-> started + 1, path |-> scan_path_buffer,
                                   filter |-> config.scan_filter, out |-> NoResult]}
          /\ started' = started + 1
  /\ UNCHANGED <<current_screen, config, scan_filter_buffer,
                 settings_default_sort, scan_path_buffer, current_sort>>
  /\ UNCHANGED <<disk, workerVars, deletes, removals, stopped, delivered>>

\* lines 424-448
StartScanPressed ==
  LET node == Resolve(disk, scan_path_buffer) IN
  IF node = NoNode
  THEN /\ status_message' = Status("ErrPathDoesNotExist")
       /\ UNCHANGED <<current_screen, config, scan_filter_buffer, settings_default_sort,
                      is_scanning, scanned_files, scan_path_buffer,
                      pending_delete_file, current_sort>>
       /\ UNCHANGED <<disk, workerVars, scans, deletes, started, removals, stopped, delivered>>
  ELSE IF ~disk[node].is_dir
  THEN /\ status_message' = Status("ErrNotADirectory")
       /\ UNCHANGED <<current_screen, config, scan_filter_buffer, settings_default_sort,
                      is_scanning, scanned_files, scan_path_buffer,
                      pending_delete_file, current_sort>>
       /\ UNCHANGED <<disk, workerVars, scans, deletes, started, removals, stopped, delivered>>
  ELSE /\ started < MaxScans
       /\ is_scanning' = TRUE
       /\ status_message' = Status("Scanning")
       /\ scanned_files' = <<>>
       /\ pending_delete_file' = None
       /\ scans' = scans \cup {[id |-> started + 1, path |-> scan_path_buffer,
                                filter |-> config.scan_filter, out |-> NoResult]}
       /\ started' = started + 1
       /\ UNCHANGED <<current_screen, config, scan_filter_buffer,
                      settings_default_sort, scan_path_buffer, current_sort>>
       /\ UNCHANGED <<disk, workerVars, deletes, removals, stopped, delivered>>

\* lines 450-454
StopScanPressed ==
  /\ is_scanning' = FALSE
  /\ status_message' = Status("ScanStopped")
  /\ stopped' = stopped \cup {t.id : t \in scans}
  /\ UNCHANGED <<current_screen, config, scan_filter_buffer, settings_default_sort,
                 scanned_files, scan_path_buffer, pending_delete_file, current_sort>>
  /\ UNCHANGED <<disk, workerVars, scans, deletes, started, removals, delivered>>

\* lines 456-459
ScanPathChanged(path) ==
  /\ scan_path_buffer' = path
  /\ UNCHANGED <<current_screen, config, status_message, scan_filter_buffer,
                 settings_default_sort, is_scanning, scanned_files,
                 pending_delete_file, current_sort>>
  /\ UNCHANGED <<disk, workerVars, scans, deletes, started, removals, stopped, delivered>>

\* lines 443-445: the executor runs the future; scan_directory reads the
\* disk as it is then.
ScanRun(t) ==
  /\ t.out = NoResult
  /\ scans' = (scans \ {t}) \cup {[t EXCEPT !.out = scan_directory(disk, t.path, t.filter)]}
  /\ UNCHANGED <<disk, workerVars, fieldVars, deletes, started, removals, stopped, delivered>>

\* lines 461-484: the result of future t is delivered
ScanCompleted(t) ==
  /\ t.out # NoResult
  /\ scans' = scans \ {t}
  /\ is_scanning' = FALSE
  /\ IF t.out.ok
     THEN LET sorted == sort_files(t.out.files, current_sort) IN
          /\ scanned_files' = sorted
          /\ status_message' = [Status("ScanComplete") EXCEPT
                                  !.file_count = file_count(sorted),
                                  !.dir_count = dir_count(sorted),
                                  !.total_size = total_size(sorted)]
          /\ delivered' = delivered \cup {[id |-> t.id, files |-> t.out.files]}
     ELSE /\ status_message' = Status("ScanError")
          /\ UNCHANGED <<scanned_files, delivered>>
  /\ UNCHANGED <<current_screen, config, scan_filter_buffer, settings_default_sort,
                 scan_path_buffer, pending_delete_file, current_sort>>
  /\ UNCHANGED <<disk, workerVars, deletes, started, removals, stopped>>

\* lines 487-491
SortChanged(method) ==
  /\ current_sort' = method
  /\ scanned_files' = sort_files(scanned_files, method)
  /\ UNCHANGED <<current_screen, config, status_message, scan_filter_buffer,
                 settings_default_sort, is_scanning, scan_path_buffer,
                 pending_delete_file>>
  /\ UNCHANGED <<disk, workerVars, scans, deletes, started, removals, stopped, delivered>>

\* lines 494-497
SettingsDefaultSortChanged(method) ==
  /\ settings_default_sort' = method
  /\ UNCHANGED <<current_screen, config, status_message, scan_filter_buffer,
                 is_scanning, scanned_files, scan_path_buffer,
                 pending_delete_file, current_sort>>
  /\ UNCHANGED <<disk, workerVars, scans, deletes, started, removals, stopped, delivered>>

\* lines 499-502
ScanFilterChanged(new_filter) ==
  /\ scan_filter_buffer' = new_filter
  /\ UNCHANGED <<current_screen, config, status_message, settings_default_sort,
                 is_scanning, scanned_files, scan_path_buffer,
                 pending_delete_file, current_sort>>
  /\ UNCHANGED <<disk, workerVars, scans, deletes, started, removals, stopped, delivered>>

\* lines 509-528
SaveSettingsPressed ==
  /\ config' = [scan_filter |-> scan_filter_buffer,
                default_sort |-> settings_default_sort]
  /\ current_sort' = settings_default_sort
  /\ status_message' = Status("SavingSettings")
  /\ UNCHANGED <<current_screen, scan_filter_buffer, settings_default_sort,
                 is_scanning, scanned_files, scan_path_buffer, pending_delete_file>>
  /\ UNCHANGED <<disk, workerVars, scans, deletes, started, removals, stopped, delivered>>

\* lines 540-544
RequestDelete(path_str) ==
  /\ pending_delete_file' = path_str
  /\ status_message' = Status("WaitingForConfirmation")
  /\ UNCHANGED <<current_screen, config, scan_filter_buffer, settings_default_sort,
                 is_scanning, scanned_files, scan_path_buffer, current_sort>>
  /\ UNCHANGED <<disk, workerVars, scans, deletes, started, removals, stopped, delivered>>

\* lines 546-550
CancelDelete ==
  /\ pending_delete_file' = None
  /\ status_message' = Status("DeletionCancelled")
  /\ UNCHANGED <<current_screen, config, scan_filter_buffer, settings_default_sort,
                 is_scanning, scanned_files, scan_path_buffer, current_sort>>
  /\ UNCHANGED <<disk, workerVars, scans, deletes, started, removals, stopped, delivered>>

\* A variant of ConfirmDelete that leaves the deletion pending after it has
\* dispatched the removal (line 556 missing).
ConfirmDelete_KeepPending ==
  IF pending_delete_file # None
  THEN /\ removals < MaxDeletes
       /\ status_message' = [Status("Deleting") EXCEPT !.path = pending_delete_file]
       /\ deletes' = deletes \cup {[id |-> removals + 1, path |-> pending_delete_file,
                                    out |-> NoResult]}
       /\ removals' = removals + 1
       /\ UNCHANGED <<current_screen, config, scan_filter_buffer, settings_default_sort,
                      is_scanning, scanned_files, scan_path_buffer, current_sort,
                      pending_delete_file>>
       /\ UNCHANGED <<disk, workerVars, scans, started, stopped, delivered>>
  ELSE UNCHANGED vars

\* lines 552-568
ConfirmDelete ==
  IF pending_delete_file # None
  THEN /\ removals < MaxDeletes
       /\ status_message' = [Status("Deleting") EXCEPT !.path = pending_delete_file]
       /\ pending_delete_file' = None
       /\ deletes' = deletes \cup {[id |-> removals + 1, path |-> pending_delete_file,
                                    out |-> NoResult]}
       /\ removals' = removals + 1
       /\ UNCHANGED <<current_screen, config, scan_filter_buffer, settings_default_sort,
                      is_scanning, scanned_files, scan_path_buffer, current_sort>>
       /\ UNCHANGED <<disk, workerVars, scans, started, stopped, delivered>>
  ELSE UNCHANGED vars

\* lines 559-562: the executor runs the future; remove_file acts on the disk
DeleteRun(t) ==
  /\ t.out = NoResult
  /\ IF RemoveOk(disk, t.path)
     THEN /\ disk' = RemoveFile(disk, t.path)
          /\ deletes' = (deletes \ {t}) \cup {[t EXCEPT !.out = [ok |-> TRUE, path |-> t.path]]}
     ELSE /\ disk' = disk
          /\ deletes' = (deletes \ {t}) \cup {[t EXCEPT !.out = Err("remove_file")]}
  /\ UNCHANGED <<workerVars, fieldVars, scans, started, removals, stopped, delivered>>

\* A variant of FileDeleted that drops the pending deletion when the
\* removal has failed.
FileDeleted_ErrDropsPending(t) ==
  /\ t.out # NoResult
  /\ deletes' = deletes \ {t}
  /\ IF t.out.ok
     THEN /\ scanned_files' = remove_by_path(scanned_files, t.out.path)
          /\ status_message' = [Status("Deleted") EXCEPT !.path = t.out.path]
          /\ UNCHANGED pending_delete_file
     ELSE /\ status_message' = Status("DeleteFailed")
          /\ pending_delete_file' = None
          /\ UNCHANGED scanned_files
  /\ UNCHANGED <<current_screen, config, scan_filter_buffer, settings_default_sort,
                 is_scanning, scan_path_buffer, current_sort>>
  /\ UNCHANGED <<disk, workerVars, scans, started, removals, stopped, delivered>>

\* lines 570-581: the result of future t is delivered
FileDeleted(t) ==
  /\ t.out # NoResult
  /\ deletes' = deletes \ {t}
  /\ IF t.out.ok
     THEN /\ scanned_files' = remove_by_path(scanned_files, t.out.path)
          /\ status_message' = [Status("Deleted") EXCEPT !.path = t.out.path]
     ELSE /\ status_message' = Status("DeleteFailed")
          /\ UNCHANGED scanned_files
  /\ UNCHANGED <<current_screen, config, scan_filter_buffer, settings_default_sort,
                 is_scanning, scan_path_buffer, pending_delete_file, current_sort>>
  /\ UNCHANGED <<disk, workerVars, scans, started, removals, stopped, delivered>>

(***************************************************************************)
(* What the views offer (lines 646-879): a message reaches update() only   *)
(* from a widget the current view shows.                                   *)
(***************************************************************************)

\* main_menu_view (lines 646-678) is shown
MainMenuShown == current_screen = "MainMenu"

\* view(), lines 616-619: every other screen has the Back button
BackShown == current_screen # "MainMenu"

\* file_scan_view is shown (line 599)
FileScanShown == current_screen = "FileScan"

\* settings_view is shown (line 607)
SettingsShown == current_screen = "Settings"

\* lines 709-710
StartScanShown == FileScanShown /\ ~is_scanning

\* lines 711-714
StopScanShown == FileScanShown /\ is_scanning

\* line 740: the rows of the list
ShownRows == SubSeq(scanned_files, 1, Min(VIEW_ROWS, Len(scanned_files)))

\* lines 758-776: a file's row has "Yes, Delete" and "Cancel" when it is
\* the pending one
ConfirmShown ==
  /\ FileScanShown
  /\ \E i \in 1..Len(ShownRows) :
        ~ShownRows[i].is_dir /\ pending_delete_file = ShownRows[i].path

\* lines 777-790: and "Delete" when it is not
DeleteShown(path) ==
  /\ FileScanShown
  /\ \E i \in 1..Len(ShownRows) :
        /\ ~ShownRows[i].is_dir
        /\ ShownRows[i].path = path
        /\ pending_delete_file # ShownRows[i].path

Next ==
  \/ \E screen \in MenuScreens :
        MainMenuShown /\ ScreenChanged(screen)
  \/ BackShown /\ BackToMainMenu
  \/ StartScanShown /\ StartScanPressed
  \/ StopScanShown /\ StopScanPressed
  \/ \E path \in AppPaths : FileScanShown /\ ScanPathChanged(path)
  \/ \E method \in SortChoices : FileScanShown /\ SortChanged(method)
  \/ \E method \in SettingsSortChoices : SettingsShown /\ SettingsDefaultSortChanged(method)
  \/ \E new_filter \in SettingsFilters : SettingsShown /\ ScanFilterChanged(new_filter)
  \/ SettingsShown /\ SaveSettingsPressed
  \/ \E i \in 1..Len(scanned_files) :
        DeleteShown(scanned_files[i].path) /\ RequestDelete(scanned_files[i].path)
  \/ ConfirmShown /\ CancelDelete
  \/ ConfirmShown /\ ConfirmDelete
  \/ \E t \in scans : ScanRun(t)
  \/ \E t \in scans : ScanCompleted(t)
  \/ \E t \in deletes : DeleteRun(t)
  \/ \E t \in deletes : FileDeleted(t)

Spec == Init /\ [][Next]_vars

(***************************************************************************)
(* ScanSpec: one call of scan_directory (lines 129-196), step by step.     *)
(***************************************************************************)

ScanInputs ==
  UNION {{[disk |-> d, path |-> p, filter |-> f] :
            p \in ScanPaths(d), f \in ScanFilters} : d \in TreeDisks}
  \cup {[disk |-> d, path |-> RootPath, filter |-> <<"*">>] :
     d \in ChainDisks \cup FlatDisks \cup LoopDisks}
  \cup {[disk |-> NameDisk(n), path |-> RootPath, filter |-> f] :
     n \in MatchNames, f \in MatchFilters}

\* lines 130 and 194: the accumulator is empty and scan_recursive is called
\* on the root at depth 0.
ScanInit ==
  \E in \in ScanInputs :
    /\ disk = in.disk
    /\ arg_path = in.path
    /\ arg_filter = in.filter
    /\ stack = <<Frame(Resolve(in.disk, in.path), in.path, 0)>>
    /\ files = <<>>
    /\ ret = "none"
    /\ scan_out = NoResult
    /\ NewApp

\* lines 133-135
ScanDepthReturn ==
  /\ AtEnter
  /\ DepthExceeded(Top.depth)
  /\ stack' = Pop
  /\ ret' = "Ok"
  /\ UNCHANGED appVars
  /\ UNCHANGED <<disk, arg_path, arg_filter, files, scan_out>>

\* lines 136-138
ScanCapReturn ==
  /\ AtEnter
  /\ ~DepthExceeded(Top.depth)
  /\ CapExceeded(files)
  /\ stack' = Pop
  /\ ret' = "Ok"
  /\ UNCHANGED appVars
  /\ UNCHANGED <<disk, arg_path, arg_filter, files, scan_out>>

\* A variant of ScanListFail in which the failure ends the whole scan with
\* an error (read_dir(dir)? here and at the call of line 166).
ScanListFail_Abort ==
  /\ AtEnter
  /\ ~DepthExceeded(Top.depth)
  /\ ~CapExceeded(files)
  /\ ~ReadDirOk(disk, Top.node)
  /\ stack' = <<>>
  /\ ret' = "read_dir"
  /\ UNCHANGED appVars
  /\ UNCHANGED <<disk, arg_path, arg_filter, files, scan_out>>

\* lines 139-142, read_dir fails
ScanListFail ==
  /\ AtEnter
  /\ ~DepthExceeded(Top.depth)
  /\ ~CapExceeded(files)
  /\ ~ReadDirOk(disk, Top.node)
  /\ stack' = Pop
  /\ ret' = "Ok"
  /\ UNCHANGED appVars
  /\ UNCHANGED <<disk, arg_path, arg_filter, files, scan_out>>

\* lines 139-140, read_dir succeeds: the loop starts at the first entry
ScanListOk ==
  /\ AtEnter
  /\ ~DepthExceeded(Top.depth)
  /\ ~CapExceeded(files)
  /\ ReadDirOk(disk, Top.node)
  /\ stack' = SetTop([Top EXCEPT !.pc = "loop"])
  /\ UNCHANGED appVars
  /\ UNCHANGED <<disk, arg_path, arg_filter, files, ret, scan_out>>

\* A variant of ScanEntrySkip that returns the error from the activation
\* (fs::metadata(&path)? for `continue`).
ScanEntrySkip_Return ==
  /\ AtEntry
  /\ ~MetadataOk(disk, EntryNode)
  /\ stack' = Pop
  /\ ret' = "metadata"
  /\ UNCHANGED appVars
  /\ UNCHANGED <<disk, arg_path, arg_filter, files, scan_out>>

\* lines 147-150: the entry's metadata cannot be read, `continue`
ScanEntrySkip ==
  /\ AtEntry
  /\ ~MetadataOk(disk, EntryNode)
  /\ stack' = SetTop([Top EXCEPT !.idx = @ + 1])
  /\ UNCHANGED appVars
  /\ UNCHANGED <<disk, arg_path, arg_filter, files, ret, scan_out>>

\* A variant of ScanEntryDir that records the directory and does not
\* descend into it.
ScanEntryDir_NoDescent ==
  /\ AtEntry
  /\ MetadataOk(disk, EntryNode)
  /\ disk[EntryNode].is_dir
  /\ files' = Append(files, DirInfo(EntryPath, disk[EntryNode]))
  /\ stack' = SetTop([Top EXCEPT !.idx = @ + 1])
  /\ UNCHANGED appVars
  /\ UNCHANGED <<disk, arg_path, arg_filter, ret, scan_out>>

\* A variant of ScanEntryDir that puts directories through the filter too:
\* the directory is recorded only when its name passes.
ScanEntryDir_Filtered ==
  /\ AtEntry
  /\ MetadataOk(disk, EntryNode)
  /\ disk[EntryNode].is_dir
  /\ files' = IF matches(arg_filter, disk[EntryNode].name)
              THEN Append(files, DirInfo(EntryPath, disk[EntryNode]))
              ELSE files
  /\ stack' = Append(SetTop([Top EXCEPT !.idx = @ + 1]),
                     Frame(EntryNode, EntryPath, Top.depth + 1))
  /\ UNCHANGED appVars
  /\ UNCHANGED <<disk, arg_path, arg_filter, ret, scan_out>>

\* lines 159-166: a directory is pushed and scan_recursive called on it
ScanEntryDir ==
  /\ AtEntry
  /\ MetadataOk(disk, EntryNode)
  /\ disk[EntryNode].is_dir
  /\ files' = Append(files, DirInfo(EntryPath, disk[EntryNode]))
  /\ stack' = Append(SetTop([Top EXCEPT !.idx = @ + 1]),
                     Frame(EntryNode, EntryPath, Top.depth + 1))
  /\ UNCHANGED appVars
  /\ UNCHANGED <<disk, arg_path, arg_filter, ret, scan_out>>

\* lines 167-188: a file is pushed when it passes the filter
ScanEntryFile ==
  /\ AtEntry
  /\ MetadataOk(disk, EntryNode)
  /\ ~disk[EntryNode].is_dir
  /\ files' = IF matches(arg_filter, disk[EntryNode].name)
              THEN Append(files, FileRecord(EntryPath, disk[EntryNode]))
              ELSE files
  /\ stack' = SetTop([Top EXCEPT !.idx = @ + 1])
  /\ UNCHANGED appVars
  /\ UNCHANGED <<disk, arg_path, arg_filter, ret, scan_out>>

\* lines 190-191: the entries are exhausted
ScanLoopEnd ==
  /\ stack # <<>>
  /\ Top.pc = "loop"
  /\ Top.idx > Len(disk[Top.node].children)
  /\ stack' = Pop
  /\ ret' = "Ok"
  /\ UNCHANGED appVars
  /\ UNCHANGED <<disk, arg_path, arg_filter, files, scan_out>>

\* lines 194-195: the top-level call has returned; `?` passes on its Err
ScanFinish ==
  /\ stack = <<>>
  /\ scan_out = NoResult
  /\ scan_out' = IF ret = "Ok" THEN Ok(files) ELSE Err(ret)
  /\ UNCHANGED appVars
  /\ UNCHANGED <<disk, arg_path, arg_filter, stack, files, ret>>

ScanNext ==
  \/ ScanDepthReturn
  \/ ScanCapReturn
  \/ ScanListFail
  \/ ScanListOk
  \/ ScanEntrySkip
  \/ ScanEntryDir
  \/ ScanEntryFile
  \/ ScanLoopEnd
  \/ ScanFinish

ScanSpec == ScanInit /\ [][ScanNext]_vars

\* The call runs on a thread of the executor (lines 442-447): while a step
\* of it is possible, one is taken.
ScanLive == ScanInit /\ [][ScanNext]_vars /\ WF_vars(ScanNext)

ScanDone == scan_out # NoResult

\* The stepped scan returns what the function scan_directory computes.
ScanAgrees == ScanDone => scan_out = scan_directory(disk, arg_path, arg_filter)

(***************************************************************************)
(* SortSpec: calls of sort_files (lines 198-207) on a list, in place, as   *)
(* ScanCompleted (line 463) and SortChanged (line 489) make them: the      *)
(* method is the one current_sort holds.                                   *)
(***************************************************************************)

\* Bound: the length of the lists sort_files is called on.
MaxList == 4

\* The records of those lists: paths that differ in letter case only, equal
\* sizes, equal dates, a directory (size 0) and a file of size 0.
SortRecords ==
  { [path |-> <<"B", "/", "x">>, size |-> 10, is_dir |-> FALSE, modified |-> 3],
    [path |-> <<"a", "/", "x">>, size |-> 5, is_dir |-> FALSE, modified |-> 1],
    [path |-> <<"A", "/", "x">>, size |-> 20, is_dir |-> FALSE, modified |-> 1],
    [path |-> <<"d">>, size |-> 0, is_dir |-> TRUE, modified |-> 2],
    [path |-> <<"b">>, size |-> 5, is_dir |-> FALSE, modified |-> 3],
    [path |-> <<"a">>, size |-> 0, is_dir |-> FALSE, modified |-> 2] }

SortLists == UNION {[1..n -> SortRecords] : n \in 0..MaxList}

\* A list as a scan returns it, in the order read_dir gave.
SortInit ==
  /\ disk = AppDisk
  /\ arg_path = RootPath
  /\ arg_filter = <<"*">>
  /\ stack = <<>>
  /\ files \in SortLists
  /\ ret = "none"
  /\ scan_out = NoResult
  /\ NewApp

\* sort_files(&mut files, method)
SortFilesCall(method) ==
  /\ files' = sort_files(files, method)
  /\ current_sort' = method
  /\ ret' = "sorted"
  /\ UNCHANGED <<disk, arg_path, arg_filter, stack, scan_out>>
  /\ UNCHANGED <<current_screen, config, status_message, scan_filter_buffer,
                 settings_default_sort, is_scanning, scanned_files, scan_path_buffer,
                 pending_delete_file, scans, deletes, started, removals, stopped,
                 delivered>>

SortNext == \E method \in SortMethods : SortFilesCall(method)

SortSpec == SortInit /\ [][SortNext]_vars

(***************************************************************************)
(* ResultSpec: the delivery of one scan result to update() (lines          *)
(* 461-478), for results drawn from a family of lists, and the sort        *)
(* methods the user may pick before and after it.                          *)
(***************************************************************************)

\* The records of the results: files of 1024, 2048 and 0 bytes and two
\* directories, which scan_directory records with size 0.
ResultRecords ==
  { [path |-> <<"r", "/", "a">>, size |-> 1024, is_dir |-> FALSE, modified |-> 3],
    [path |-> <<"r", "/", "b">>, size |-> 2048, is_dir |-> FALSE, modified |-> 1],
    [path |-> <<"r", "/", "d">>, size |-> 0, is_dir |-> TRUE, modified |-> 2],
    [path |-> <<"r", "/", "d", "/", "a">>, size |-> 0, is_dir |-> FALSE, modified |-> 2],
    [path |-> <<"r", "/", "k">>, size |-> 0, is_dir |-> TRUE, modified |-> 4] }

\* The results: every list of distinct records among them, in any order.
ResultLists ==
  {fs \in UNION {[1..n -> ResultRecords] : n \in 0..Cardinality(ResultRecords)} :
     \A i, j \in 1..Len(fs) : fs[i] = fs[j] => i = j}

\* StartScanPressed has dispatched a scan of the root (lines 435-447) and
\* the future has produced its result.
ResultInit ==
  /\ disk = AppDisk
  /\ WorkerIdle
  /\ current_screen = "FileScan"
  /\ config = DefaultConfig
  /\ status_message = Status("Scanning")
  /\ scan_filter_buffer = DefaultConfig.scan_filter
  /\ settings_default_sort = DefaultConfig.default_sort
  /\ is_scanning = TRUE
  /\ scanned_files = <<>>
  /\ scan_path_buffer = RootPath
  /\ pending_delete_file = None
  /\ current_sort = DefaultConfig.default_sort
  /\ \E fs \in ResultLists :
        scans = {[id |-> 1, path |-> RootPath, filter |-> DefaultConfig.scan_filter,
                  out |-> Ok(fs)]}
  /\ deletes = {}
  /\ started = 1
  /\ removals = 0
  /\ stopped = {}
  /\ delivered = {}

ResultNext ==
  \/ \E t \in scans : ScanCompleted(t)
  \/ \E method \in SortMethods : FileScanShown /\ SortChanged(method)

ResultSpec == ResultInit /\ [][ResultNext]_vars

(***************************************************************************)
(* DeleteSpec: the deletion of files of a held list (lines 540-581) that   *)
(* may be stale: since the scan, a file may have vanished from the disk.   *)
(***************************************************************************)

\* The disk as it was scanned, and with one of its files gone since.
DeleteDisks ==
  {AppDisk,
   RemoveFile(AppDisk, JoinPath(RootPath, AppDisk[2].name)),
   RemoveFile(AppDisk, JoinPath(JoinPath(RootPath, AppDisk[3].name), AppDisk[4].name))}

\* A scan of the root of AppDisk with the default configuration has been
\* delivered (lines 461-478) and the File Scan screen shows its list.
DeleteInit ==
  LET res    == scan_directory(AppDisk, RootPath, DefaultConfig.scan_filter).files
      sorted == sort_files(res, DefaultConfig.default_sort)
  IN  /\ disk \in DeleteDisks
      /\ WorkerIdle
      /\ current_screen = "FileScan"
      /\ config = DefaultConfig
      /\ status_message = [Status("ScanComplete") EXCEPT
                              !.file_count = file_count(sorted),
                              !.dir_count = dir_count(sorted),
                              !.total_size = total_size(sorted)]
      /\ scan_filter_buffer = DefaultConfig.scan_filter
      /\ settings_default_sort = DefaultConfig.default_sort
      /\ is_scanning = FALSE
      /\ scanned_files = sorted
      /\ scan_path_buffer = RootPath
      /\ pending_delete_file = None
      /\ current_sort = DefaultConfig.default_sort
      /\ scans = {}
      /\ deletes = {}
      /\ started = 1
      /\ removals = 0
      /\ stopped = {}
      /\ delivered = {[id |-> 1, files |-> res]}

DeleteNext ==
  \/ \E screen \in MenuScreens :
        MainMenuShown /\ ScreenChanged(screen)
  \/ BackShown /\ BackToMainMenu
  \/ \E method \in SortChoices : FileScanShown /\ SortChanged(method)
  \/ \E i \in 1..Len(scanned_files) :
        DeleteShown(scanned_files[i].path) /\ RequestDelete(scanned_files[i].path)
  \/ ConfirmShown /\ CancelDelete
  \/ ConfirmShown /\ ConfirmDelete
  \/ \E t \in deletes : DeleteRun(t)
  \/ \E t \in deletes : FileDeleted(t)

DeleteSpec == DeleteInit /\ [][DeleteNext]_vars

(***************************************************************************)
(* Claims about scan_directory, checked under ScanSpec.                    *)
(***************************************************************************)

Range(f) == {f[i] : i \in DOMAIN f}

SlashCount(p) == Cardinality({i \in 1..Len(p) : p[i] = "/"})

\* The depth of a path below the scanned root: the root's entries are at 1.
DepthOf(path) == SlashCount(path) - SlashCount(arg_path)

\* The node scan_directory's path names.
ScanRoot == Resolve(disk, arg_path)

\* Every object below node n (at `path`) down to `fuel` levels, with its path.
RECURSIVE Below(_, _, _, _)
Below(d, n, path, fuel) ==
  IF fuel = 0 \/ n = NoNode \/ ~d[n].is_dir THEN {}
  ELSE UNION {LET cp == JoinPath(path, d[c].name)
              IN  {[path |-> cp, node |-> c]} \cup Below(d, c, cp, fuel - 1) :
                c \in Range(d[n].children)}

\* The objects below the scanned root, as deep as depth MAX_DEPTH + 3.
Objects == Below(disk, ScanRoot, arg_path, MAX_DEPTH + 3)

\* C1 (as claimed): the list scan_directory returns holds at most the
\* ceiling's number of records (10000 in the source, MAX_FILES here).
C1_AtMostCeiling == (ScanDone /\ scan_out.ok) => Len(scan_out.files) <= MAX_FILES

\* C2 (as claimed): with the root at depth 0, no directory at depth
\* MAX_DEPTH + 1 = 6 has a record, and nothing deeper has one.
C2_NoRecordAtDepthSix ==
  \A i \in 1..Len(files) :
     /\ DepthOf(files[i].path) <= MAX_DEPTH + 1
     /\ files[i].is_dir => DepthOf(files[i].path) <= MAX_DEPTH

\* C2 (amended): no activation of scan_recursive lists a directory deeper
\* than MAX_DEPTH = 5, so every record is at depth 6 at most: a directory at
\* depth 6 has a record, being an entry of a directory at depth 5, and
\* nothing inside it (depth 7 and deeper) has one.
C2_DepthBound ==
  /\ \A i \in 1..Len(files) : DepthOf(files[i].path) <= MAX_DEPTH + 1
  /\ \A k \in 1..Len(stack) : stack[k].pc = "loop" => stack[k].depth <= MAX_DEPTH

\* A finished scan of a disk with objects at depth 7 that recorded a
\* directory at depth 6.
C2_Witness ==
  /\ ScanDone
  /\ \E o \in Objects : DepthOf(o.path) = MAX_DEPTH + 2
  /\ \E i \in 1..Len(files) :
        files[i].is_dir /\ DepthOf(files[i].path) = MAX_DEPTH + 1

\* The premise of C3: below a root that can be listed there are at most
\* MAX_FILES objects, none deeper than MAX_DEPTH, and no metadata or
\* listing fails.
C3_Premise ==
  /\ ReadDirOk(disk, ScanRoot)
  /\ Cardinality(Objects) <= MAX_FILES
  /\ \A o \in Objects :
        /\ DepthOf(o.path) <= MAX_DEPTH
        /\ disk[o.node].meta_ok
        /\ disk[o.node].is_dir => disk[o.node].list_ok

\* The record C3 expects for an object.
C3_RecordOf(o) ==
  [path |-> o.path,
   size |-> IF disk[o.node].is_dir THEN 0 ELSE disk[o.node].size,
   is_dir |-> disk[o.node].is_dir,
   modified |-> disk[o.node].modified]

C3_Expected ==
  {C3_RecordOf(o) : o \in {x \in Objects :
      disk[x.node].is_dir \/ matches(arg_filter, disk[x.node].name)}}

\* C3: under the premise the returned list holds exactly one record for
\* each object below the root that is a directory or a file passing the
\* filter: none is missing, none is extra, no path appears twice.
C3_ExactlyOneRecordEach ==
  (ScanDone /\ C3_Premise) =>
     /\ scan_out.ok
     /\ Range(scan_out.files) = C3_Expected
     /\ Len(scan_out.files) = Cardinality(C3_Expected)
     /\ \A i, j \in 1..Len(scan_out.files) :
          scan_out.files[i].path = scan_out.files[j].path => i = j

\* A finished scan, under the premise, of a tree of exactly MAX_FILES
\* objects, one of them inside a subdirectory.
C3_Witness ==
  /\ ScanDone
  /\ C3_Premise
  /\ Cardinality(Objects) = MAX_FILES
  /\ \E o \in Objects : DepthOf(o.path) = 2

\* C4 (as claimed): scan_directory returns an error exactly when the root
\* cannot be listed, and a list otherwise.
C4_RootFailureIsError == ScanDone => (scan_out.ok <=> ReadDirOk(disk, ScanRoot))

\* C10 (as claimed): once the accumulator holds more than the ceiling's
\* number of records, no step of the scan appends to it.
C10_NoPushPastCeiling == [][Len(files) > MAX_FILES => files' = files]_vars

\* The disk d with the objects of S absent from every directory.
AbsentChildren(d, S) ==
  [n \in DOMAIN d |-> [d[n] EXCEPT !.children = SelectSeq(@, LAMBDA c : c \notin S)]]

\* The disk d with the directories of S empty and listable.
EmptyDirs(d, S) ==
  [n \in DOMAIN d |->
     IF n \in S THEN [d[n] EXCEPT !.children = <<>>, !.list_ok = TRUE] ELSE d[n]]

\* The path is p or lies below p.
AtOrBelow(path, p) == path = p \/ starts_with(path, p \o <<"/">>)

\* The objects below the scanned root whose metadata cannot be read.
C11_Failing == {o \in Objects : ~disk[o.node].meta_ok}

\* C11: a child whose metadata cannot be read does not abort the scan: the
\* scan returns Ok, no record is at or below that child's path, and the
\* list is the one a scan of the same disk without that child returns.
C11_MetadataFailureSkipsChild ==
  ScanDone =>
     /\ ReadDirOk(disk, ScanRoot) => scan_out.ok
     /\ \A o \in C11_Failing : \A i \in 1..Len(files) : ~AtOrBelow(files[i].path, o.path)
     /\ files = scan_recursive(AbsentChildren(disk, {o.node : o \in C11_Failing}),
                               ScanRoot, arg_path, arg_filter, <<>>, 0)

\* A finished scan of a disk on which the metadata of a directory that has
\* children cannot be read, and that recorded a later sibling of it.
C11_Witness ==
  /\ ScanDone
  /\ \E o \in C11_Failing :
        /\ disk[o.node].is_dir
        /\ disk[o.node].children # <<>>
        /\ \E s \in Objects :
              /\ s.node > o.node
              /\ DepthOf(s.path) = DepthOf(o.path)
              /\ \E i \in 1..Len(files) : files[i].path = s.path

\* The directories below the scanned root that were recorded and cannot be
\* listed.
C12_Failing ==
  {o \in Objects : disk[o.node].is_dir /\ disk[o.node].meta_ok /\ ~disk[o.node].list_ok}

\* C12: a directory below the root that cannot be listed does not abort the
\* scan: the scan returns Ok, no record lies below that directory, and the
\* list is the one a scan of the same disk with that directory empty returns.
C12_ListingFailureIsEmptyDir ==
  ScanDone =>
     /\ ReadDirOk(disk, ScanRoot) => scan_out.ok
     /\ \A o \in C12_Failing : \A i \in 1..Len(files) :
           ~starts_with(files[i].path, o.path \o <<"/">>)
     /\ files = scan_recursive(EmptyDirs(disk, {o.node : o \in C12_Failing}),
                               ScanRoot, arg_path, arg_filter, <<>>, 0)

\* A finished scan of a disk on which a directory that has children cannot
\* be listed: the directory was recorded, and so was a later sibling of it.
C12_Witness ==
  /\ ScanDone
  /\ \E o \in C12_Failing :
        /\ disk[o.node].children # <<>>
        /\ \E i \in 1..Len(files) : files[i].path = o.path
        /\ \E s \in Objects :
              /\ s.node > o.node
              /\ DepthOf(s.path) = DepthOf(o.path)
              /\ \E i \in 1..Len(files) : files[i].path = s.path

\* C13: directories are never filtered.  Whatever the filter, the step at
\* an entry that is a directory with readable metadata appends one record
\* for it with is_dir = TRUE and size = 0; the step at a file entry appends
\* the file's record or nothing; and every directory record held has size 0.
C13_DirectoriesNeverFiltered ==
  /\ [](\A i \in 1..Len(files) : files[i].is_dir => files[i].size = 0)
  /\ [][(AtEntry /\ MetadataOk(disk, EntryNode)) =>
          IF disk[EntryNode].is_dir
          THEN files' = Append(files, [path |-> EntryPath, size |-> 0, is_dir |-> TRUE,
                                       modified |-> disk[EntryNode].modified])
          ELSE \/ files' = files
               \/ /\ Len(files') = Len(files) + 1
                  /\ SubSeq(files', 1, Len(files)) = files
                  /\ ~files'[Len(files')].is_dir
                  /\ files'[Len(files')].path = EntryPath]_vars

\* A finished scan with the filter *.txt that recorded a directory whose
\* name does not pass the filter and whose own length on disk is not 0, and
\* that left out a file the filter rejects.
C13_Witness ==
  /\ ScanDone
  /\ arg_filter = <<"*", ".", "t", "x", "t">>
  /\ \E o \in Objects :
        /\ disk[o.node].is_dir
        /\ disk[o.node].size > 0
        /\ ~matches(arg_filter, disk[o.node].name)
        /\ \E i \in 1..Len(files) : files[i].path = o.path /\ files[i].is_dir
  /\ \E o \in Objects :
        /\ ~disk[o.node].is_dir
        /\ disk[o.node].meta_ok
        /\ \A i \in 1..Len(files) : files[i].path # o.path

\* The files directly in the scanned root whose metadata can be read: the
\* loop of the first activation reaches every one of them.
RootFiles ==
  {o \in Objects : DepthOf(o.path) = 1 /\ ~disk[o.node].is_dir /\ disk[o.node].meta_ok}

Recorded(o) == \E i \in 1..Len(files) : files[i].path = o.path /\ ~files[i].is_dir

\* The filter has the form *.<ext> and is not *.*
C14_ExtFilter(filter) == starts_with(filter, StarDot) /\ filter # <<"*", ".", "*">>

\* The part of the name after its last dot equals <ext>, the filter after
\* its first two characters, ignoring letter case.
C14_LastDotPartEquals(filter, name) ==
  LET dots == DotPositions(name) IN
  /\ dots # {}
  /\ to_lowercase(SubSeq(name, Max(dots) + 1, Len(name)))
       = to_lowercase(SubSeq(filter, 3, Len(filter)))

\* C14 (as claimed): under a filter *.<ext>, a file is recorded if and only
\* if the part of its name after the last dot equals <ext> ignoring case.
C14_MatchesByLastDot ==
  (ScanDone /\ ReadDirOk(disk, ScanRoot) /\ C14_ExtFilter(arg_filter)) =>
     \A o \in RootFiles :
        Recorded(o) <=> C14_LastDotPartEquals(arg_filter, disk[o.node].name)

\* How many times "*." is repeated at the start of the filter.
C14_Stars(filter) ==
  Max({k \in 0..(Len(filter) \div 2) :
         \A j \in 1..k : filter[2 * j - 1] = "*" /\ filter[2 * j] = "."})

\* The name has an extension: a dot that is not its first character.
C14_HasExt(name) == DotPositions(name) \ {1} # {}

\* C14 (amended): under a filter *.<ext> other than *.*, with <ext> what is
\* left of the filter after every leading "*." is taken off, a file is
\* recorded if and only if its name has an extension (a name with no dot,
\* or whose only dot is its first character, has none) and the part after
\* the last dot equals <ext> ignoring ASCII letter case.
C14_MatchesByExtension ==
  (ScanDone /\ ReadDirOk(disk, ScanRoot) /\ C14_ExtFilter(arg_filter)) =>
     \A o \in RootFiles :
        LET name == disk[o.node].name
            ext  == SubSeq(arg_filter, 2 * C14_Stars(arg_filter) + 1, Len(arg_filter))
        IN  Recorded(o) <=>
              /\ C14_HasExt(name)
              /\ to_lowercase(SubSeq(name, Max(DotPositions(name)) + 1, Len(name)))
                   = to_lowercase(ext)

\* A finished scan with the filter *.txt that recorded the file a.TXT.
C14_Witness ==
  /\ ScanDone
  /\ arg_filter = <<"*", ".", "t", "x", "t">>
  /\ \E o \in RootFiles : disk[o.node].name = <<"a", ".", "T", "X", "T">> /\ Recorded(o)

\* C15: under the filters * and *.*, and under every filter that does not
\* start with "*.", every file is recorded, with or without an extension.
C15_StarAndUnknownMatchAll ==
  (ScanDone /\ ReadDirOk(disk, ScanRoot) /\ ~C14_ExtFilter(arg_filter)) =>
     \A o \in RootFiles : Recorded(o)

\* A finished scan with the filter "txt", a pattern of no known form, that
\* recorded a file without extension.
C15_Witness ==
  /\ ScanDone
  /\ arg_filter = <<"t", "x", "t">>
  /\ \E o \in RootFiles : disk[o.node].name = <<"a">> /\ Recorded(o)

\* C19: every call of scan_directory returns, on graphs with cycles too,
\* and the depth cap bounds the recursion: there are never more nested
\* activations of scan_recursive than the depths 0..MAX_DEPTH + 1.
C19_ScanTerminates ==
  /\ <>ScanDone
  /\ [](Len(stack) <= MAX_DEPTH + 2)

\* A finished scan of a graph with a cycle through the root (a link back
\* to it), which went round the cycle down to depth MAX_DEPTH + 1.
C19_Witness ==
  /\ ScanDone
  /\ \E n \in DOMAIN disk : \E k \in 1..Len(disk[n].children) : disk[n].children[k] = 1
  /\ \E i \in 1..Len(files) : DepthOf(files[i].path) = MAX_DEPTH + 1

(***************************************************************************)
(* Claims about sort_files, checked under SortSpec.                        *)
(***************************************************************************)

\* How often record r occurs in the list.
Count(fs, r) == Cardinality({i \in 1..Len(fs) : fs[i] = r})

IsPermutation(a, b) ==
  /\ Len(a) = Len(b)
  /\ \A r \in Range(a) \cup Range(b) : Count(a, r) = Count(b, r)

\* a is before or equal to b in the lexicographic order of the code points.
RECURSIVE StrLeq(_, _)
StrLeq(a, b) ==
  IF a = <<>> THEN TRUE
  ELSE IF b = <<>> THEN FALSE
  ELSE IF a[1] = b[1] THEN StrLeq(Tail(a), Tail(b))
  ELSE CharCode(a[1]) < CharCode(b[1])

\* Record a may stand before record b under the method.
KeyOrdered(a, b, method) ==
  CASE method = "NameAZ" -> StrLeq(to_lowercase(a.path), to_lowercase(b.path))
    [] method = "NameZA" -> StrLeq(to_lowercase(b.path), to_lowercase(a.path))
    [] method = "SizeLargest" -> a.size >= b.size
    [] method = "SizeSmallest" -> a.size <= b.size
    [] method = "Newest" -> a.modified >= b.modified
    [] method = "Oldest" -> a.modified <= b.modified

\* The records have the same key under the method.
SameKey(a, b, method) ==
  CASE method \in {"NameAZ", "NameZA"} -> to_lowercase(a.path) = to_lowercase(b.path)
    [] method \in {"SizeLargest", "SizeSmallest"} -> a.size = b.size
    [] method \in {"Newest", "Oldest"} -> a.modified = b.modified

OrderedBy(fs, method) ==
  \A i \in 1..(Len(fs) - 1) : KeyOrdered(fs[i], fs[i + 1], method)

\* C16: a call of sort_files leaves the list a permutation of what it was,
\* every adjacent pair ordered by the method's key; under SizeLargest every
\* directory stands after every record of size above 0.
C16_SortedPermutation ==
  [][\A method \in SortMethods :
       SortFilesCall(method) =>
          /\ IsPermutation(files', files)
          /\ OrderedBy(files', method)
          /\ method = "SizeLargest" =>
                \A i, j \in 1..Len(files') :
                   (files'[i].is_dir /\ files'[j].size > 0) => j < i]_vars

\* sort_files was called with SizeLargest on a list that was not in that
\* order: sizes 20, 10, 5, then a directory.
C16_Witness ==
  /\ ret = "sorted"
  /\ current_sort = "SizeLargest"
  /\ Len(files) = 4
  /\ [i \in 1..4 |-> files[i].size] = <<20, 10, 5, 0>>
  /\ files[4].is_dir

\* C17: sort_files is stable: the records of equal key stand in the order
\* they had before the call, so a call on a list already in the method's
\* order leaves it as it was.
C17_SortStable ==
  [][\A method \in SortMethods :
       SortFilesCall(method) =>
          /\ \A r \in Range(files) :
                SelectSeq(files', LAMBDA x : SameKey(x, r, method))
                  = SelectSeq(files, LAMBDA x : SameKey(x, r, method))
          /\ OrderedBy(files, method) => files' = files]_vars

\* sort_files was called with NameAZ and left A/x before a/x, paths that
\* differ in letter case only and would stand the other way round by code
\* point: the order they came in.
C17_Witness ==
  /\ ret = "sorted"
  /\ current_sort = "NameAZ"
  /\ files = << [path |-> <<"a">>, size |-> 0, is_dir |-> FALSE, modified |-> 2],
                [path |-> <<"A", "/", "x">>, size |-> 20, is_dir |-> FALSE, modified |-> 1],
                [path |-> <<"a", "/", "x">>, size |-> 5, is_dir |-> FALSE, modified |-> 1],
                [path |-> <<"B", "/", "x">>, size |-> 10, is_dir |-> FALSE, modified |-> 3] >>

(***************************************************************************)
(* Claims about the aggregation of ScanCompleted, checked under ResultSpec.*)
(***************************************************************************)

\* The step delivers the result of future t to update().
Delivers(t, pool, pool_after) == t.out # NoResult /\ pool_after = pool \ {t}

\* The sum of the sizes of the records at the positions S of the list.
RECURSIVE SizeSum(_, _)
SizeSum(fs, S) ==
  IF S = {} THEN 0
  ELSE LET i == CHOOSE k \in S : TRUE IN fs[i].size + SizeSum(fs, S \ {i})

\* C18: the step that handles ScanCompleted(Ok(files)) reports as file
\* count the number of records that are not directories, as directory count
\* the number of directory records, and as total size the sum of the sizes
\* of the records that are not directories; the counts add up to the length.
C18_AggregationCounts ==
  [][\A t \in scans :
       (t.out.ok /\ Delivers(t, scans, scans')) =>
          LET fs == t.out.files
              F  == {i \in 1..Len(fs) : ~fs[i].is_dir}
              D  == {i \in 1..Len(fs) : fs[i].is_dir}
          IN  /\ status_message'.kind = "ScanComplete"
              /\ status_message'.file_count = Cardinality(F)
              /\ status_message'.dir_count = Cardinality(D)
              /\ status_message'.total_size = SizeSum(fs, F)
              /\ status_message'.file_count + status_message'.dir_count = Len(fs)]_vars

\* The result with 3 files of 1024, 2048 and 0 bytes and 2 directories was
\* delivered: 3 files, 2 directories, 3072 bytes.
C18_Witness ==
  /\ status_message.kind = "ScanComplete"
  /\ Len(scanned_files) = 5
  /\ status_message.file_count = 3
  /\ status_message.dir_count = 2
  /\ status_message.total_size = 3072

(***************************************************************************)
(* Claims about the application, checked under Spec.                       *)
(***************************************************************************)

\* C5 (as claimed): the ScanCompleted of a scan that was in flight when a
\* StopScanPressed was handled leaves the held list as it was.
C5_StoppedResultNotApplied ==
  [][\A t \in scans :
       (t.id \in stopped /\ Delivers(t, scans, scans')) =>
          scanned_files' = scanned_files]_vars

\* C6 (as claimed): at most one dispatched scan has not yet delivered its
\* ScanCompleted.
C6_OneScanInFlight == Cardinality(scans) <= 1

\* C7 (as claimed): once every dispatched scan has completed, the held list
\* is the result of the scan started last: it holds records of that result
\* only, and all of them while no removal was dispatched.
C7_LatestScanHeld ==
  (scans = {} /\ started > 0) =>
     \E r \in delivered :
        /\ r.id = started
        /\ Range(scanned_files) \subseteq Range(r.files)
        /\ removals = 0 => Range(scanned_files) = Range(r.files)

\* C8: the step that handles FileDeleted(Ok(p)) removes the record with
\* path p, one record at most, and keeps every other record and their
\* order; with no such record the list is unchanged.
C8_DeletedRecordRemoved ==
  [][\A t \in deletes :
       (t.out.ok /\ Delivers(t, deletes, deletes')) =>
          /\ scanned_files' = SelectSeq(scanned_files, LAMBDA r : r.path # t.out.path)
          /\ Len(scanned_files') >= Len(scanned_files) - 1]_vars

\* FileDeleted(Ok(p)) was handled for a file the only scan had listed, and
\* the two other records are still held.
C8_Witness ==
  /\ status_message.kind = "Deleted"
  /\ started = 1
  /\ scans = {}
  /\ Len(scanned_files) = 2
  /\ \A i \in 1..Len(scanned_files) : scanned_files[i].path # status_message.path

\* The scan path names nothing, or something that is not a directory.
BadScanPath ==
  LET node == Resolve(disk, scan_path_buffer) IN node = NoNode \/ ~disk[node].is_dir

\* C9: StartScanPressed on such a path dispatches no scan and changes
\* nothing but status_message, which becomes one of the two errors.
C9_BadPathRejected ==
  [][(BadScanPath /\ StartScanPressed) =>
       /\ status_message'.kind \in {"ErrPathDoesNotExist", "ErrNotADirectory"}
       /\ UNCHANGED <<scans, started, is_scanning, scanned_files, pending_delete_file>>
       /\ UNCHANGED <<current_screen, config, scan_filter_buffer, settings_default_sort,
                      scan_path_buffer, current_sort, deletes, removals, disk>>]_vars

\* A rejected StartScanPressed was the last message handled, with a list
\* held and a deletion pending.
C9_Witness ==
  /\ status_message.kind \in {"ErrPathDoesNotExist", "ErrNotADirectory"}
  /\ scanned_files # <<>>
  /\ pending_delete_file # None
  /\ ~is_scanning

\* C20: results are replaced wholesale.  StartScanPressed on a directory
\* empties the held list and clears the pending deletion in the same step;
\* the step that handles ScanCompleted(Ok(files)) leaves as held list a
\* permutation of files in the order of the current sort method, so no
\* record of an earlier result stays.
C20_ReplacedWholesale ==
  [][/\ (~BadScanPath /\ StartScanPressed) =>
          scanned_files' = <<>> /\ pending_delete_file' = None
     /\ \A t \in scans :
          (t.out.ok /\ Delivers(t, scans, scans')) =>
             /\ IsPermutation(scanned_files', t.out.files)
             /\ OrderedBy(scanned_files', current_sort')]_vars

\* Two scans were dispatched and have completed, the first delivered a
\* list with a record the second's result does not have, and the second's
\* result is held, largest first, with no deletion pending.
C20_Witness ==
  /\ started = 2
  /\ scans = {}
  /\ status_message.kind = "ScanComplete"
  /\ current_sort = "SizeLargest"
  /\ pending_delete_file = None
  /\ \E r1, r2 \in delivered :
        /\ r1.id = 1
        /\ r2.id = 2
        /\ Range(r1.files) \ Range(r2.files) # {}
        /\ Range(scanned_files) = Range(r2.files)
        /\ Len(scanned_files) = 2

\* C21 (as claimed): in every state the held list is in the order of
\* current_sort, also after SaveSettingsPressed has set current_sort to the
\* saved default.
C21_ListOrderedByCurrentSort == OrderedBy(scanned_files, current_sort)

\* C22: a removal is dispatched only while a deletion is pending, by the
\* step that handles ConfirmDelete: one removal, of the pending path, and
\* the pending deletion is cleared.  The pending path is set only by
\* RequestDelete and dropped only by CancelDelete, ScreenChanged, an
\* accepted StartScanPressed or ConfirmDelete, so it is the path of the
\* latest request not cancelled since.  ConfirmDelete with nothing pending
\* changes nothing.
C22_RemovalOnlyOnConfirm ==
  [][/\ (removals' # removals \/ ~({t.id : t \in deletes'} \subseteq {t.id : t \in deletes})) =>
          /\ pending_delete_file # None
          /\ removals' = removals + 1
          /\ deletes' = deletes \cup {[id |-> removals', path |-> pending_delete_file,
                                       out |-> NoResult]}
          /\ pending_delete_file' = None
          /\ status_message'.kind = "Deleting"
     /\ (pending_delete_file' # pending_delete_file /\ pending_delete_file' # None) =>
          /\ status_message'.kind = "WaitingForConfirmation"
          /\ DeleteShown(pending_delete_file')
          /\ UNCHANGED <<deletes, removals>>
     /\ (pending_delete_file # None /\ pending_delete_file' = None) =>
          \/ status_message'.kind = "DeletionCancelled" /\ UNCHANGED <<deletes, removals>>
          \/ current_screen' # current_screen /\ UNCHANGED <<deletes, removals>>
          \/ status_message'.kind = "Scanning" /\ started' = started + 1
          \/ status_message'.kind = "Deleting" /\ removals' = removals + 1
     /\ (pending_delete_file = None /\ ConfirmDelete) => UNCHANGED vars]_vars

\* ConfirmDelete was handled: the removal of the path that was pending is
\* in flight, its record is still held, and nothing is pending.
C22_Witness ==
  /\ status_message.kind = "Deleting"
  /\ pending_delete_file = None
  /\ \E t \in deletes : t.path = status_message.path /\ t.out = NoResult
  /\ \E i \in 1..Len(scanned_files) : scanned_files[i].path = status_message.path

\* FileDeleted(Ok(p)) has been handled: p was on the disk at the start, its
\* removal has taken it off the disk, and no removal of p is still in
\* flight.  Nothing in the model puts a file back.
C23_DeletionProcessed(p) ==
  /\ Resolve(AppDisk, p) # NoNode
  /\ Resolve(disk, p) = NoNode
  /\ \A t \in deletes : t.path # p

\* C23 (as claimed): once FileDeleted(Ok(p)) has been handled, no record
\* with path p is held again (no later scan can find p, which stays off the
\* disk): a scan in flight when p was deleted does not bring it back.
C23_DeletedNotResurrected ==
  \A i \in 1..Len(scanned_files) : ~C23_DeletionProcessed(scanned_files[i].path)

\* C24 (as claimed): a pending deletion names the path of a record of the
\* held list that is not a directory.
C24_PendingNamesHeldFile ==
  pending_delete_file # None =>
     \E i \in 1..Len(scanned_files) :
        ~scanned_files[i].is_dir /\ scanned_files[i].path = pending_delete_file

(***************************************************************************)
(* Claims about failed deletions, checked under DeleteSpec.                *)
(***************************************************************************)

\* C25: the step that handles FileDeleted(Err) sets the status message and
\* changes nothing else: the held list, the pending deletion, the sort
\* method and is_scanning stay as they are.
C25_FailedDeletionOnlyStatus ==
  [][\A t \in deletes :
       (~t.out.ok /\ Delivers(t, deletes, deletes')) =>
          /\ status_message'.kind = "DeleteFailed"
          /\ UNCHANGED <<scanned_files, pending_delete_file, current_sort, is_scanning>>
          /\ UNCHANGED <<current_screen, config, scan_filter_buffer,
                         settings_default_sort, scan_path_buffer, scans, started,
                         removals, disk>>]_vars

\* FileDeleted(Err) was handled for a file that had vanished before its
\* removal ran: its record is still held with the two others, and a
\* deletion requested in the meantime is still pending.
C25_Witness ==
  /\ status_message.kind = "DeleteFailed"
  /\ deletes = {}
  /\ removals > 0
  /\ Len(scanned_files) = 3
  /\ pending_delete_file # None
  /\ \E i \in 1..Len(scanned_files) :
        ~scanned_files[i].is_dir /\ Resolve(disk, scanned_files[i].path) = NoNode

====
